---------------------------- MODULE Spec2Model ----------------------------
(***************************************************************************)
(* Model of the item panel server (src/server.js): the persisted item     *)
(* collection (items.json), the uploaded images (uploads/images), the     *)
(* session gate, and the Lua export.                                       *)
(*                                                                         *)
(* Representation.                                                         *)
(*  - A URL or a file name is a sequence of one-character strings, so that *)
(*    the regular expression of the export and split('/') are computed     *)
(*    character by character.                                              *)
(*  - A JS value that the code only tests for truthiness is modelled by    *)
(*    its value with the falsy value standing for "absent" as well:        *)
(*    0 for numbers, "" for strings, << >> for URLs, FALSE for booleans.   *)
(*    An object that may be absent (client, server, status) carries a      *)
(*    `present` flag, because an empty object is truthy in JS.             *)
(*  - A JS object's own-property order matters only for client.status: it  *)
(*    is a sequence of [key, value] entries.  In JSON text the entries are *)
(*    in text order; in a parsed object they are in own-property order.    *)
(*  - The generated Lua text is a sequence of lines, each line a record    *)
(*    [depth, key, kind, num, txt, url].                                   *)
(***************************************************************************)
EXTENDS Integers, Sequences, FiniteSets, TLC

VARIABLES
    itemsFile,      \* items.json: [exists, items]; items is the JSON text's array
    images,         \* the regular files of uploads/images (file names)
    uploadDir,      \* whether the directory uploads/images exists
    authenticated,  \* req.session.authenticated of every session
    req,            \* the request handled last
    res,            \* the response to it
    unlinked,       \* the fs.unlinkSync calls made while handling it
    pc,             \* event loop model: where each caller's request stands
    local,          \* event loop model: the handler's local `items` of each caller
    running,        \* event loop model: the caller whose handler is on the stack
    committed,      \* the collection as of the last mutation that reported success
    posted          \* the request text items.json was last saved from; << >> once
                    \* a later mutation succeeded

vars == <<itemsFile, images, uploadDir, authenticated, req, res, unlinked,
          pc, local, running, committed, posted>>

storeVars == <<itemsFile, images, uploadDir>>
loopVars == <<pc, local, running>>

---------------------------------------------------------------------------
(* Bounds *)

MaxItems == 2
MaxStatus == 3

---------------------------------------------------------------------------
(* Character strings *)

Str_http == <<"h", "t", "t", "p">>
Str_https == <<"h", "t", "t", "p", "s">>
Str_ws == <<"w", "s">>
Sep == <<":", "/", "/">>
UploadsPath == <<"/", "u", "p", "l", "o", "a", "d", "s", "/",
                 "i", "m", "a", "g", "e", "s", "/">>

HasPrefix(u, p) == Len(u) >= Len(p) /\ SubSeq(u, 1, Len(p)) = p

Tail_from(u, k) == SubSeq(u, k, Len(u))

\* Positions of "/" in u.
Slashes(u) == {k \in 1..Len(u) : u[k] = "/"}

SetMax(S) == CHOOSE m \in S : \A k \in S : k <= m
SetMin(S) == CHOOSE m \in S : \A k \in S : m <= k

---------------------------------------------------------------------------
(* getBaseUrl and the imageurl rewrite *)

\* `a || b` on strings: the empty string (and an absent header) is falsy.
OrElse(a, b) == IF a # <<>> THEN a ELSE b

getBaseUrl(r) ==
    LET protocol == OrElse(r.xfProto, r.protocol)
        host == OrElse(r.xfHost, r.host)
    IN protocol \o Sep \o host

\* Length of the match of /^https?:\/\// at the start of u, 0 when none.
SchemeMatch(u) ==
    IF HasPrefix(u, Str_https \o Sep) THEN Len(Str_https) + Len(Sep)
    ELSE IF HasPrefix(u, Str_http \o Sep) THEN Len(Str_http) + Len(Sep)
    ELSE 0

\* Length of the greedy match of [^\/]+ in u from position k, 0 when none.
AuthorityMatch(u, k) ==
    LET after == {j \in k..Len(u) : u[j] = "/"}
        stop == IF after = {} THEN Len(u) + 1 ELSE SetMin(after)
    IN stop - k

\* imageurl.replace(/^https?:\/\/[^\/]+/, '')
StripBase(u) ==
    LET n == SchemeMatch(u)
        k == AuthorityMatch(u, n + 1)
    IN IF n > 0 /\ k > 0 THEN Tail_from(u, n + k + 1) ELSE u

\* `${baseUrl}${imageUrl}`
Rewrite(baseUrl, u) == baseUrl \o StripBase(u)

\* imageUrl.split('/').pop()
Filename(u) ==
    IF Slashes(u) = {} THEN u ELSE Tail_from(u, SetMax(Slashes(u)) + 1)

---------------------------------------------------------------------------
(* JSON.parse: own-property order of an object *)

\* The keys that are array indices ("0", "1", ...) and their numeric value.
IndexKeys == {"1", "2"}
IndexValue(k) == IF k = "1" THEN 1 ELSE 2

\* The value a key ends with: the last entry of the text with this key.
LastValue(entries, k) ==
    entries[SetMax({p \in DOMAIN entries : entries[p].key = k})].value

\* Keys in order of first appearance in the text.
RECURSIVE FirstSeen(_, _)
FirstSeen(entries, seen) ==
    IF entries = <<>> THEN <<>>
    ELSE IF Head(entries).key \in seen THEN FirstSeen(Tail(entries), seen)
    ELSE <<Head(entries).key>>
             \o FirstSeen(Tail(entries), seen \cup {Head(entries).key})

\* The array-index keys of S in ascending numeric order.
RECURSIVE Ascending(_)
Ascending(S) ==
    IF S = {} THEN <<>>
    ELSE LET m == CHOOSE k \in S : \A j \in S : IndexValue(k) <= IndexValue(j)
         IN <<m>> \o Ascending(S \ {m})

\* OrdinaryOwnPropertyKeys: array indices ascending, then the other string
\* keys in creation order.
OwnKeys(entries) ==
    LET ks == FirstSeen(entries, {})
        idx == {ks[p] : p \in DOMAIN ks} \cap IndexKeys
    IN Ascending(idx) \o SelectSeq(ks, LAMBDA k : k \notin IndexKeys)

ParseObject(entries) ==
    LET ks == OwnKeys(entries)
    IN [p \in DOMAIN ks |-> [key |-> ks[p], value |-> LastValue(entries, ks[p])]]

ParseItem(it) ==
    [it EXCEPT !.client.status.entries = ParseObject(@)]

\* JSON.parse of the text of an array of items.
JSONparse(text) == [i \in DOMAIN text |-> ParseItem(text[i])]

\* JSON.stringify of an array of items: every own property in own-property
\* order.
JSONstringify(items) == items

---------------------------------------------------------------------------
(* The Lua export: app.get('/generate-lua'), the text it builds *)

Line(d, k, kd, n, t, u) ==
    [depth |-> d, key |-> k, kind |-> kd, num |-> n, txt |-> t, url |-> u]

\* `key = {`
Open(d, k) == Line(d, k, "open", 0, "", <<>>)
\* `},`   (the last line of the text is `}`)
Close(d) == Line(d, "", "close", 0, "", <<>>)
\* `key = ${n},`
NumLine(d, k, n) == Line(d, k, "num", n, "", <<>>)
\* `key = '${t}',`
StrLine(d, k, t) == Line(d, k, "str", 0, t, <<>>)
\* `key = '${u}',` for a URL
UrlLine(d, k, u) == Line(d, k, "url", 0, "", u)
\* `key = true,`
TrueLine(d, k) == Line(d, k, "true", 0, "", <<>>)

\* `if (x) luaContent += ...` for a number, a string
IfNum(d, k, n) == IF n # 0 THEN <<NumLine(d, k, n)>> ELSE <<>>
IfStr(d, k, t) == IF t # "" THEN <<StrLine(d, k, t)>> ELSE <<>>

RECURSIVE Flatten(_)
Flatten(ss) == IF ss = <<>> THEN <<>> ELSE Head(ss) \o Flatten(Tail(ss))

\* Object.entries(item.client.status).forEach(...)
EmitStatus(status) ==
    IF status.present
    THEN <<Open(3, "status")>>
         \o [p \in DOMAIN status.entries |->
                NumLine(4, status.entries[p].key, status.entries[p].value)]
         \o <<Close(3)>>
    ELSE <<>>

EmitImageurl(client, baseUrl) ==
    IF client.imageurl # <<>>
    THEN <<UrlLine(3, "imageurl", Rewrite(baseUrl, client.imageurl))>>
    ELSE <<>>

EmitClient(client, baseUrl) ==
    IF client.present
    THEN <<Open(2, "client")>>
         \o IfStr(3, "anim", client.anim)
         \o IfStr(3, "prop", client.prop)
         \o IfNum(3, "usetime", client.usetime)
         \o IfStr(3, "notification", client.notification)
         \o IfStr(3, "image", client.image)
         \o EmitImageurl(client, baseUrl)
         \o EmitStatus(client.status)
         \o <<Close(2)>>
    ELSE <<>>

EmitServer(server) ==
    IF server.present
    THEN <<Open(2, "server")>> \o IfStr(3, "export", server.export) \o <<Close(2)>>
    ELSE <<>>

EmitButton(button) ==
    << Open(3, ""),
       StrLine(4, "label", button.label),
       StrLine(4, "group", button.group),
       StrLine(4, "action", button.action),
       Close(3) >>

EmitButtons(buttons) ==
    IF Len(buttons) > 0
    THEN <<Open(2, "buttons")>>
         \o Flatten([p \in DOMAIN buttons |-> EmitButton(buttons[p])])
         \o <<Close(2)>>
    ELSE <<>>

EmitItem(item, baseUrl) ==
    <<Open(1, item.name)>>
    \o <<StrLine(2, "label", item.label)>>
    \o IfNum(2, "weight", item.weight)
    \o IfNum(2, "degrade", item.degrade)
    \o IfNum(2, "consume", item.consume)
    \o (IF item.stack THEN <<TrueLine(2, "stack")>> ELSE <<>>)
    \o EmitClient(item.client, baseUrl)
    \o EmitServer(item.server)
    \o EmitButtons(item.buttons)
    \o <<Close(1)>>

\* luaContent of the handler.
Emit(items, baseUrl) ==
    <<Open(0, "return")>>
    \o Flatten([i \in DOMAIN items |-> EmitItem(items[i], baseUrl)])
    \o <<Close(0)>>

---------------------------------------------------------------------------
(* Items *)

NoStatus == [present |-> FALSE, entries |-> <<>>]
NoClient ==
    [present |-> FALSE, anim |-> "", prop |-> "", usetime |-> 0,
     notification |-> "", image |-> "", imageurl |-> <<>>, status |-> NoStatus]
EmptyClient == [NoClient EXCEPT !.present = TRUE]
NoServer == [present |-> FALSE, export |-> ""]

\* An item with name and label only.
Plain(n) ==
    [name |-> n, label |-> "Label", weight |-> 0, degrade |-> 0, consume |-> 0,
     stack |-> FALSE, client |-> NoClient, server |-> NoServer, buttons |-> <<>>]

WithImage(n, u) == [Plain(n) EXCEPT !.client = [EmptyClient EXCEPT !.imageurl = u]]

WithStatus(n, es) ==
    [Plain(n) EXCEPT !.client =
        [EmptyClient EXCEPT !.status = [present |-> TRUE, entries |-> es]]]

---------------------------------------------------------------------------
(* Requests and responses *)

Sessions == {"s1", "s2"}
PASSWORD == "secret"
Passwords == {PASSWORD, "guess"}

FileNames == {<<"a">>}

\* parseInt(req.params.index): an optional sign, then the leading digits;
\* what follows the digits is ignored, and no digit at all gives NaN.
\* A route segment is [neg, digits, junk], digits = -1 for "no digit".
NaN == [nan |-> TRUE, n |-> 0]
parseInt(param) ==
    IF param.digits < 0 THEN NaN
    ELSE [nan |-> FALSE, n |-> IF param.neg THEN 0 - param.digits ELSE param.digits]

Segment(neg, digits, junk) == [neg |-> neg, digits |-> digits, junk |-> junk]

NoHeaders == [xfProto |-> <<>>, protocol |-> Str_http, xfHost |-> <<>>, host |-> <<"h">>]

NoReq ==
    [op |-> "none", session |-> "s1", password |-> "", body |-> <<>>,
     param |-> Segment(FALSE, 0, FALSE), imageUrl |-> <<>>, headers |-> NoHeaders,
     upload |-> "none", file |-> <<>>]

Request(op, s) == [NoReq EXCEPT !.op = op, !.session = s]

NoRes ==
    [status |-> 0, success |-> FALSE, authenticated |-> FALSE, items |-> <<>>,
     lua |-> <<>>, url |-> <<>>]

\* res.status(n).json(...), res.json({ success: true }), res.redirect(...)
Status(n) == [NoRes EXCEPT !.status = n]
Success == [NoRes EXCEPT !.status = 200, !.success = TRUE]
Redirect == Status(302)

---------------------------------------------------------------------------
(* The route gate *)

\* Mutant of requireAuth: next() whatever the session says.
requireAuthOpen(s) == TRUE

requireAuth(s) == authenticated[s]

\* app.use((req, res, next) => ...): the paths let through, else requireAuth
OpenPaths == {"/login.html", "/login", "/check-auth"}
Gate(path, s) == path \in OpenPaths \/ requireAuth(s)

\* A request the gate turns away: a redirect, nothing else happens.
TurnedAway(r) ==
    /\ req' = r
    /\ res' = Redirect
    /\ unlinked' = <<>>
    /\ UNCHANGED <<storeVars, authenticated, committed, posted>>

---------------------------------------------------------------------------
(* The file system under uploads/images *)

\* path.join(__dirname, 'uploads', 'images', filename): the empty file name
\* gives the directory itself.
IsDirectory(filename) == filename = <<>>

\* fs.existsSync(filepath)
Exists(filename, files, dir) ==
    IF IsDirectory(filename) THEN dir ELSE filename \in files

\* fs.unlinkSync(filepath) throws on a directory.
UnlinkThrows(filename) == IsDirectory(filename)

---------------------------------------------------------------------------
(* Array operations of the delete handler *)

\* items[index]?.client?.imageurl, << >> when any link is undefined
ImageurlAt(items, index) ==
    IF ~index.nan /\ index.n >= 0 /\ index.n < Len(items)
       /\ items[index.n + 1].client.present
    THEN items[index.n + 1].client.imageurl
    ELSE <<>>

Max(a, b) == IF a >= b THEN a ELSE b
Min(a, b) == IF a <= b THEN a ELSE b

\* Array.prototype.splice(index, 1): NaN counts as 0, a negative start counts
\* from the end, the start is clamped to the array.
SpliceStart(len, index) ==
    LET relative == IF index.nan THEN 0 ELSE index.n
    IN IF relative < 0 THEN Max(len + relative, 0) ELSE Min(relative, len)

Splice(items, index) ==
    LET start == SpliceStart(Len(items), index)
        count == Min(1, Len(items) - start)
    IN SubSeq(items, 1, start) \o SubSeq(items, start + count + 1, Len(items))

---------------------------------------------------------------------------
(* The handlers, each run as one step *)

File(items) == [exists |-> TRUE, items |-> items]
NoFile == [exists |-> FALSE, items |-> <<>>]

\* A handler that answers without touching files or sessions.
Answer(r, response) ==
    /\ req' = r
    /\ res' = response
    /\ unlinked' = <<>>
    /\ UNCHANGED <<storeVars, authenticated, committed, posted>>

\* app.get('/check-auth'), registered before the gate
CheckAuth(s) ==
    /\ Answer(Request("check-auth", s),
              [NoRes EXCEPT !.status = 200, !.authenticated = authenticated[s]])
    /\ UNCHANGED loopVars

\* app.post('/login')
Login(s, password) ==
    LET r == [Request("login", s) EXCEPT !.password = password]
    IN /\ IF ~Gate("/login", s) THEN TurnedAway(r)
          ELSE IF password = PASSWORD
          THEN /\ req' = r
               /\ authenticated' = [authenticated EXCEPT ![s] = TRUE]
               /\ res' = Success
               /\ unlinked' = <<>>
               /\ UNCHANGED <<storeVars, committed, posted>>
          ELSE Answer(r, Status(401))
       /\ UNCHANGED loopVars

\* app.post('/logout'): req.session.destroy()
Logout(s) ==
    LET r == Request("logout", s)
    IN /\ IF ~Gate("/logout", s) THEN TurnedAway(r)
          ELSE /\ req' = r
               /\ authenticated' = [authenticated EXCEPT ![s] = FALSE]
               /\ res' = Success
               /\ unlinked' = <<>>
               /\ UNCHANGED <<storeVars, committed, posted>>
       /\ UNCHANGED loopVars

\* app.use('/uploads', express.static('uploads')), mounted before the gate:
\* an existing file is served, anything else goes on to the gate and finds
\* no route.
ServeUpload(s, f) ==
    LET r == [Request("static", s) EXCEPT !.file = f]
    IN /\ IF f \in images THEN Answer(r, [Status(200) EXCEPT !.url = f])
          ELSE IF ~Gate("/uploads/images/:file", s) THEN TurnedAway(r)
          ELSE Answer(r, Status(404))
       /\ UNCHANGED loopVars

\* app.post('/upload-image', upload.single('image'), ...).  `upload` says what
\* the request carries: no file, a file the fileFilter refuses, or an image;
\* f is Date.now() + '-' + file.originalname.
UploadImage(s, upload, f, headers) ==
    LET r == [Request("upload-image", s) EXCEPT
                  !.upload = upload, !.file = f, !.headers = headers]
    IN /\ IF ~Gate("/upload-image", s) THEN TurnedAway(r)
          ELSE IF upload = "refused" THEN Answer(r, Status(500))
          ELSE IF upload = "none" THEN Answer(r, Status(400))
          ELSE /\ req' = r
               /\ images' = images \cup {f}
               /\ uploadDir' = TRUE
               /\ res' = [Status(200) EXCEPT
                             !.url = getBaseUrl(headers) \o UploadsPath \o f]
               /\ unlinked' = <<>>
               /\ UNCHANGED <<itemsFile, authenticated, committed, posted>>
       /\ UNCHANGED loopVars

\* The catch of app.get('/items.json'): a file that cannot be read gives [].
ListResult(file) == IF file.exists THEN JSONparse(file.items) ELSE <<>>

\* app.get('/items.json')
ListItems(s) ==
    LET r == Request("list", s)
    IN /\ IF ~Gate("/items.json", s) THEN TurnedAway(r)
          ELSE Answer(r, [Status(200) EXCEPT !.items = ListResult(itemsFile)])
       /\ UNCHANGED loopVars

\* Mutant of SaveResult: the posted items are added to the stored ones.
SaveResultMerge(file, body) == [exists |-> TRUE, items |-> file.items \o JSONparse(body)]

\* fs.writeFileSync('items.json', JSON.stringify(req.body.items, null, 2));
\* req.body is express.json()'s JSON.parse of the request text.
SaveResult(file, body) == File(JSONstringify(JSONparse(body)))

\* app.post('/save-items')
SaveItems(s, body) ==
    LET r == [Request("save-items", s) EXCEPT !.body = body]
    IN /\ IF ~Gate("/save-items", s) THEN TurnedAway(r)
          ELSE /\ req' = r
               /\ itemsFile' = SaveResult(itemsFile, body)
               /\ committed' = File(JSONparse(body))
               /\ posted' = body
               /\ res' = Success
               /\ unlinked' = <<>>
               /\ UNCHANGED <<images, uploadDir, authenticated>>
       /\ UNCHANGED loopVars

\* app.get('/generate-lua')
GenerateLua(s, headers) ==
    LET r == [Request("generate-lua", s) EXCEPT !.headers = headers]
    IN /\ IF ~Gate("/generate-lua", s) THEN TurnedAway(r)
          ELSE IF ~itemsFile.exists THEN Answer(r, Status(500))
          ELSE LET items == JSONparse(itemsFile.items)
                   baseUrl == getBaseUrl(headers)
               IN Answer(r, [Status(200) EXCEPT !.lua = Emit(items, baseUrl)])
       /\ UNCHANGED loopVars

\* app.delete('/delete-image')
DeleteImage(s, imageUrl) ==
    LET r == [Request("delete-image", s) EXCEPT !.imageUrl = imageUrl]
        filename == Filename(imageUrl)
    IN /\ IF ~Gate("/delete-image", s) THEN TurnedAway(r)
          ELSE IF imageUrl = <<>> THEN Answer(r, Status(400))
          ELSE IF ~Exists(filename, images, uploadDir) THEN Answer(r, Status(404))
          ELSE IF UnlinkThrows(filename)
          THEN /\ req' = r
               /\ res' = Status(500)
               /\ unlinked' = <<filename>>
               /\ UNCHANGED <<storeVars, authenticated, committed, posted>>
          ELSE /\ req' = r
               /\ images' = images \ {filename}
               /\ res' = Success
               /\ unlinked' = <<filename>>
               /\ UNCHANGED <<itemsFile, uploadDir, authenticated, committed, posted>>
       /\ UNCHANGED loopVars

\* The image removal of the delete handler: whether fs.unlinkSync is called
\* for the item at index, and on which file.
UnlinkWanted(items, index, files, dir) ==
    /\ ImageurlAt(items, index) # <<>>
    /\ Exists(Filename(ImageurlAt(items, index)), files, dir)

\* app.delete('/items/:index')
DeleteItem(s, param) ==
    LET r == [Request("delete-item", s) EXCEPT !.param = param]
        index == parseInt(param)
        items == JSONparse(itemsFile.items)
        filename == Filename(ImageurlAt(items, index))
        wanted == UnlinkWanted(items, index, images, uploadDir)
    IN /\ IF ~Gate("/items/:index", s) THEN TurnedAway(r)
          ELSE IF ~itemsFile.exists THEN Answer(r, Status(500))
          ELSE IF wanted /\ UnlinkThrows(filename)
          THEN /\ req' = r
               /\ res' = Status(500)
               /\ unlinked' = <<filename>>
               /\ UNCHANGED <<storeVars, authenticated, committed, posted>>
          ELSE /\ req' = r
               /\ images' = IF wanted THEN images \ {filename} ELSE images
               /\ unlinked' = IF wanted THEN <<filename>> ELSE <<>>
               /\ itemsFile' = File(JSONstringify(Splice(items, index)))
               /\ committed' = File(Splice(items, index))
               /\ posted' = <<>>
               /\ res' = Success
               /\ UNCHANGED <<uploadDir, authenticated>>
       /\ UNCHANGED loopVars

---------------------------------------------------------------------------
(* The store: sessions, items.json and the images *)

Base_h == Str_http \o Sep \o <<"h">>

\* The items a caller saves: one with a status object and no image, one with
\* an uploaded image, one whose imageurl ends in "/".
StoreItems ==
    { WithStatus("status", <<[key |-> "b", value |-> 1], [key |-> "1", value |-> 2]>>),
      WithImage("imgA", Base_h \o UploadsPath \o <<"a">>),
      WithImage("imgDir", Base_h \o UploadsPath) }

Arrays(S, n) == UNION {[1..k -> S] : k \in 0..n}

StoreBodies == Arrays(StoreItems, MaxItems)

StoreUrls ==
    { <<>>, Base_h \o UploadsPath \o <<"a">>, <<"b">>, Base_h \o UploadsPath }

\* Route segments for /items/:index: "0".."MaxItems", "-1", "-2", "1x", "x".
IndexParams ==
    {Segment(FALSE, k, FALSE) : k \in 0..MaxItems}
    \cup {Segment(TRUE, 1, FALSE), Segment(TRUE, 2, FALSE),
          Segment(FALSE, 1, TRUE), Segment(FALSE, -1, TRUE)}

Caller == {"c1", "c2"}
Idle == [at |-> "idle", op |-> "none", body |-> <<>>, param |-> Segment(FALSE, 0, FALSE)]

Init ==
    /\ itemsFile = NoFile
    /\ images = {}
    /\ uploadDir = FALSE
    /\ authenticated = [s \in Sessions |-> FALSE]
    /\ req = NoReq
    /\ res = NoRes
    /\ unlinked = <<>>
    /\ committed = NoFile
    /\ posted = <<>>
    /\ pc = [c \in Caller |-> Idle]
    /\ local = [c \in Caller |-> <<>>]
    /\ running = "none"

Next ==
    \E s \in {"s1"} :
        \/ CheckAuth(s)
        \/ \E password \in Passwords : Login(s, password)
        \/ Logout(s)
        \/ \E f \in FileNames : ServeUpload(s, f)
        \/ \E upload \in {"none", "refused", "image"}, f \in FileNames :
               UploadImage(s, upload, f, NoHeaders)
        \/ ListItems(s)
        \/ \E body \in StoreBodies : SaveItems(s, body)
        \/ GenerateLua(s, NoHeaders)
        \/ \E imageUrl \in StoreUrls : DeleteImage(s, imageUrl)
        \/ \E param \in IndexParams : DeleteItem(s, param)

Spec == Init /\ [][Next]_vars

---------------------------------------------------------------------------
(* The export on its own: one caller logs in, saves items, exports them *)

Button(n) == [label |-> n, group |-> "g", action |-> "act"]

\* Items that vary the top-level optional fields, server and buttons.
ScalarItems ==
    { [Plain("scalar") EXCEPT !.weight = w, !.degrade = d, !.consume = c,
                              !.stack = st, !.server = sv, !.buttons = bs] :
        w \in {0, 5}, d \in {0, 1}, c \in {0, 1}, st \in BOOLEAN,
        sv \in {NoServer, [present |-> TRUE, export |-> ""],
                [present |-> TRUE, export |-> "exp"]},
        bs \in {<<>>, <<Button("one")>>, <<Button("one"), Button("two")>>,
                <<Button("two"), Button("one")>>} }

\* Items that vary the fields of client.
ClientItems ==
    { [Plain("client") EXCEPT !.client =
          [present |-> TRUE, anim |-> a, prop |-> p, usetime |-> u,
           notification |-> n, image |-> i, imageurl |-> <<>>, status |-> st]] :
        a \in {"", "eat"}, p \in {"", "cup"}, u \in {0, 2500}, n \in {"", "done"},
        i \in {"", "cup.png"},
        st \in {NoStatus, [present |-> TRUE, entries |-> <<>>]} }

\* Status objects as written in the request text: keys in any order, a key
\* possibly twice; the value tells the position in the text.
StatusKeys == {"1", "2", "a", "b"}
StatusTexts ==
    UNION { { [p \in 1..k |-> [key |-> ks[p], value |-> p]] : ks \in [1..k -> StatusKeys] } :
            k \in 1..MaxStatus }
StatusItems == {WithStatus("status", es) : es \in StatusTexts}

\* imageurl values: nothing, or a scheme and authority, before a path.
UrlPrefixes ==
    { <<>>, Base_h, Str_https \o Sep \o <<"g">>, Str_ws \o Sep \o <<"h">>,
      Str_http \o Sep }
UrlPaths == { <<>>, <<"/">>, <<"/", "a">>, <<"a">>, <<"a", "/", "b">>,
              UploadsPath \o <<"a">> }
ImageUrls == {p \o t : p \in UrlPrefixes, t \in UrlPaths} \ {<<>>}
UrlItems == {WithImage("image", u) : u \in ImageUrls}

EmitBodies ==
    {<<it>> : it \in ScalarItems \cup ClientItems \cup StatusItems \cup UrlItems}
    \cup {<<>>, <<Plain("first"), [Plain("second") EXCEPT !.client = EmptyClient]>>}

\* Request headers: X-Forwarded-Proto and X-Forwarded-Host absent or set.
EmitHeaders ==
    { [NoHeaders EXCEPT !.xfProto = xp, !.xfHost = xh] :
        xp \in {<<>>, Str_https, Str_ws}, xh \in {<<>>, <<"g">>} }

NextEmit ==
    \/ Login("s1", PASSWORD)
    \/ \E body \in EmitBodies : SaveItems("s1", body)
    \/ \E headers \in EmitHeaders : GenerateLua("s1", headers)

SpecEmit == Init /\ [][NextEmit]_vars

---------------------------------------------------------------------------
(* Two sessions at the gate *)

AuthBodies == Arrays({WithImage("imgA", Base_h \o UploadsPath \o <<"a">>)}, 1)

NextAuth ==
    \E s \in Sessions :
        \/ CheckAuth(s)
        \/ \E password \in Passwords : Login(s, password)
        \/ Logout(s)
        \/ \E f \in FileNames : ServeUpload(s, f)
        \/ \E f \in FileNames : UploadImage(s, "image", f, NoHeaders)
        \/ ListItems(s)
        \/ \E body \in AuthBodies : SaveItems(s, body)
        \/ GenerateLua(s, NoHeaders)
        \/ \E imageUrl \in {Base_h \o UploadsPath \o <<"a">>} : DeleteImage(s, imageUrl)
        \/ \E param \in {Segment(FALSE, 0, FALSE)} : DeleteItem(s, param)

SpecAuth == Init /\ [][NextAuth]_vars

---------------------------------------------------------------------------
(* The event loop: concurrent callers, handlers run statement by statement *)

\* Mutant of HandlerMayStart: handlers that await their file operations, so
\* that the event loop starts another handler in between.
HandlerMayStartAnytime == TRUE

\* A handler is a synchronous function (readFileSync, unlinkSync,
\* writeFileSync, no await, no callback): Node runs it to its end before the
\* event loop takes the next request.
HandlerMayStart == running = "none"

\* The request of caller c is received: the session is loaded and the body
\* parsed, the handler is ready to run.
Receive(c, op, body, param) ==
    /\ pc[c].at = "idle"
    /\ pc' = [pc EXCEPT ![c] = [at |-> "queued", op |-> op, body |-> body, param |-> param]]
    /\ UNCHANGED <<storeVars, authenticated, req, res, unlinked, local, running,
                   committed, posted>>

\* The event loop calls the handler of caller c.
Enter(c) ==
    /\ pc[c].at = "queued"
    /\ HandlerMayStart
    /\ running' = c
    /\ pc' = [pc EXCEPT ![c].at = IF pc[c].op = "save-items" THEN "write" ELSE "read"]
    /\ UNCHANGED <<storeVars, authenticated, req, res, unlinked, local, committed, posted>>

\* The handler of c returns (its response is sent).
Return(c) ==
    /\ pc' = [pc EXCEPT ![c] = Idle]
    /\ local' = [local EXCEPT ![c] = <<>>]
    /\ running' = "none"

\* const items = JSON.parse(fs.readFileSync('items.json', 'utf8'))
ReadStep(c) ==
    /\ pc[c].at = "read"
    /\ IF itemsFile.exists
       THEN /\ local' = [local EXCEPT ![c] = JSONparse(itemsFile.items)]
            /\ pc' = [pc EXCEPT ![c].at =
                         IF pc[c].op = "delete-item" THEN "unlink" ELSE "send"]
            /\ UNCHANGED running
       ELSE Return(c)
    /\ UNCHANGED <<storeVars, authenticated, req, res, unlinked, committed, posted>>

\* if (items[index]?.client?.imageurl) { ... fs.unlinkSync(filepath) ... }
UnlinkStep(c) ==
    LET index == parseInt(pc[c].param)
        filename == Filename(ImageurlAt(local[c], index))
        wanted == UnlinkWanted(local[c], index, images, uploadDir)
    IN /\ pc[c].at = "unlink"
       /\ IF wanted /\ UnlinkThrows(filename)
          THEN Return(c) /\ UNCHANGED images
          ELSE /\ images' = IF wanted THEN images \ {filename} ELSE images
               /\ pc' = [pc EXCEPT ![c].at = "write"]
               /\ UNCHANGED <<running, local>>
       /\ UNCHANGED <<itemsFile, uploadDir, authenticated, req, res, unlinked,
                      committed, posted>>

\* fs.writeFileSync('items.json', ...); res.json({ success: true }).
\* `committed` takes the mutation as the next of a sequential history.
WriteStep(c) ==
    LET index == parseInt(pc[c].param)
    IN /\ pc[c].at = "write"
       /\ IF pc[c].op = "save-items"
          THEN /\ itemsFile' = SaveResult(itemsFile, pc[c].body)
               /\ committed' = File(JSONparse(pc[c].body))
          ELSE /\ itemsFile' = File(JSONstringify(Splice(local[c], index)))
               /\ committed' = File(Splice(committed.items, index))
       /\ Return(c)
       /\ UNCHANGED <<images, uploadDir, authenticated, req, res, unlinked, posted>>

\* res.send(luaContent)
SendStep(c) ==
    /\ pc[c].at = "send"
    /\ Return(c)
    /\ UNCHANGED <<storeVars, authenticated, req, res, unlinked, committed, posted>>

LoopItems ==
    { WithStatus("status", <<[key |-> "b", value |-> 1]>>),
      WithImage("imgA", Base_h \o UploadsPath \o <<"a">>),
      WithImage("imgDir", Base_h \o UploadsPath) }
LoopBodies == Arrays(LoopItems, MaxItems)
LoopParams == {Segment(FALSE, k, FALSE) : k \in 0..1}

\* The callers are logged in and an image has been uploaded.
InitLoop ==
    /\ itemsFile = NoFile
    /\ images = {<<"a">>}
    /\ uploadDir = TRUE
    /\ authenticated = [s \in Sessions |-> TRUE]
    /\ req = NoReq
    /\ res = NoRes
    /\ unlinked = <<>>
    /\ committed = NoFile
    /\ posted = <<>>
    /\ pc = [c \in Caller |-> Idle]
    /\ local = [c \in Caller |-> <<>>]
    /\ running = "none"

NextLoop ==
    \E c \in Caller :
        \/ \E body \in LoopBodies : Receive(c, "save-items", body, Segment(FALSE, 0, FALSE))
        \/ \E param \in LoopParams : Receive(c, "delete-item", <<>>, param)
        \/ Receive(c, "generate-lua", <<>>, Segment(FALSE, 0, FALSE))
        \/ Enter(c)
        \/ ReadStep(c)
        \/ UnlinkStep(c)
        \/ WriteStep(c)
        \/ SendStep(c)

SpecLoop == InitLoop /\ [][NextLoop]_vars

---------------------------------------------------------------------------
(* Reading the generated text *)

\* The last request was an export that was answered with the text.
Exported == req.op = "generate-lua" /\ res.status = 200

\* The items the export read.
ExportedItems == JSONparse(itemsFile.items)

ItemOpens(lua) == {p \in DOMAIN lua : lua[p].depth = 1 /\ lua[p].kind = "open"}

\* The lines of the i-th item of the text, from `['name'] = {` to its `},`.
Block(lua, i) ==
    LET start == CHOOSE p \in ItemOpens(lua) :
                     Cardinality({q \in ItemOpens(lua) : q < p}) = i - 1
        stop == SetMin({q \in DOMAIN lua :
                           q > start /\ lua[q].depth = 1 /\ lua[q].kind = "close"})
    IN SubSeq(lua, start, stop)

\* The keys written at depth d of a block.
Keys(blk, d) ==
    {blk[p].key : p \in {q \in DOMAIN blk : blk[q].depth = d /\ blk[q].kind # "close"}}

\* The status keys of a block in the order written.
StatusOrder(blk) ==
    LET ls == SelectSeq(blk, LAMBDA l : l.depth = 4 /\ l.kind = "num")
    IN [p \in DOMAIN ls |-> ls[p].key]

\* The button labels of a block in the order written.
ButtonOrder(blk) ==
    LET ls == SelectSeq(blk, LAMBDA l : l.depth = 4 /\ l.kind = "str" /\ l.key = "label")
    IN [p \in DOMAIN ls |-> ls[p].txt]

\* Whether the item field that key k (at depth d) is written for is truthy.
Truthy(it, d, k) ==
    IF d = 2
    THEN CASE k = "label" -> TRUE
           [] k = "weight" -> it.weight # 0
           [] k = "degrade" -> it.degrade # 0
           [] k = "consume" -> it.consume # 0
           [] k = "stack" -> it.stack
           [] k = "client" -> it.client.present
           [] k = "server" -> it.server.present
           [] k = "buttons" -> Len(it.buttons) > 0
           [] OTHER -> FALSE
    ELSE CASE k = "anim" -> it.client.present /\ it.client.anim # ""
           [] k = "prop" -> it.client.present /\ it.client.prop # ""
           [] k = "usetime" -> it.client.present /\ it.client.usetime # 0
           [] k = "notification" -> it.client.present /\ it.client.notification # ""
           [] k = "image" -> it.client.present /\ it.client.image # ""
           [] k = "imageurl" -> it.client.present /\ it.client.imageurl # <<>>
           [] k = "status" -> it.client.present /\ it.client.status.present
           [] k = "export" -> it.server.present /\ it.server.export # ""
           [] k = "" -> Len(it.buttons) > 0
           [] OTHER -> FALSE

\* No optional field is set beyond label.
LabelOnly(it) ==
    /\ it.weight = 0 /\ it.degrade = 0 /\ it.consume = 0 /\ ~it.stack
    /\ ~it.client.present /\ ~it.server.present /\ it.buttons = <<>>

SubMappings == {"client", "server", "status", "buttons"}

RemoveAt(seq, p) == SubSeq(seq, 1, p - 1) \o SubSeq(seq, p + 1, Len(seq))

Keyseq(entries) == [p \in DOMAIN entries |-> entries[p].key]
Distinct(seq) == \A p, q \in DOMAIN seq : p # q => seq[p] # seq[q]

---------------------------------------------------------------------------
(* Claims about the export, under SpecEmit *)

\* C1: the export writes the key of an optional field only when the field is
\* present and truthy in the item; an item with nothing set beyond label gives
\* a mapping with label only; the text holds no empty client, server, status
\* or buttons sub-mapping.
C1_PresenceDriven ==
    Exported =>
        /\ Cardinality(ItemOpens(res.lua)) = Len(ExportedItems)
        /\ \A i \in DOMAIN ExportedItems :
               LET it == ExportedItems[i]
                   blk == Block(res.lua, i)
               IN /\ \A d \in {2, 3} : \A k \in Keys(blk, d) : Truthy(it, d, k)
                  /\ LabelOnly(it) =>
                         blk = <<Open(1, it.name), StrLine(2, "label", it.label), Close(1)>>
        /\ \A p \in DOMAIN res.lua :
               (res.lua[p].kind = "open" /\ res.lua[p].key \in SubMappings)
                   => res.lua[p + 1].kind # "close"

\* C2: rewriting an emitted imageurl again with the same baseUrl gives the
\* same URL, and every emitted imageurl starts with baseUrl.
C2_RewriteIdempotent ==
    Exported =>
        \A p \in DOMAIN res.lua :
            res.lua[p].key = "imageurl" =>
                /\ HasPrefix(res.lua[p].url, getBaseUrl(req.headers))
                /\ Rewrite(getBaseUrl(req.headers), res.lua[p].url) = res.lua[p].url

\* C3: for an item saved with two or more status keys, the status entries of
\* the text are in the key order of the saved request text; the buttons are
\* in their input order.
C3_OrderPreserved ==
    (Exported /\ Len(posted) = Len(ExportedItems)) =>
        \A i \in DOMAIN posted :
            LET input == posted[i]
                blk == Block(res.lua, i)
            IN /\ ( /\ input.client.present /\ input.client.status.present
                    /\ Len(input.client.status.entries) >= 2
                    /\ Distinct(Keyseq(input.client.status.entries)) )
                   => StatusOrder(blk) = Keyseq(input.client.status.entries)
               /\ ButtonOrder(blk) = [p \in DOMAIN input.buttons |-> input.buttons[p].label]

---------------------------------------------------------------------------
(* Claims about the store, under Spec.  In a step, req' is the request the  *)
(* step handles, and the unprimed variables are the state it finds.        *)

\* The step handles DELETE /items/:index for a logged-in session and finds a
\* persisted collection.
DeleteStep ==
    /\ req'.op = "delete-item"
    /\ authenticated[req'.session]
    /\ itemsFile.exists

Before == JSONparse(itemsFile.items)
After == JSONparse(itemsFile'.items)
DeleteIndex == parseInt(req'.param)
InRange == ~DeleteIndex.nan /\ 0 <= DeleteIndex.n /\ DeleteIndex.n < Len(Before)

\* A position whose removal from Before gives After.
Removed == CHOOSE p \in DOMAIN Before : After = RemoveAt(Before, p)

\* The imageurl of an item, << >> when it has none.
ImageurlOf(it) == IF it.client.present THEN it.client.imageurl ELSE <<>>

\* C4: deleteAt(i) with 0 <= i < N removes exactly the item at position i: the
\* collection afterwards has length N-1 and keeps the other items in order.
C4_RemovesExactlyOne ==
    [][ (DeleteStep /\ InRange) => After = RemoveAt(Before, DeleteIndex.n + 1) ]_vars

\* C5: deleteAt with an index out of range (>= N, negative, not a number)
\* answers with an error and changes neither the collection nor the images.
C5_OutOfRangeFails ==
    [][ (DeleteStep /\ ~InRange) =>
            /\ res'.status >= 400
            /\ ~res'.success
            /\ itemsFile' = itemsFile
            /\ images' = images ]_vars

\* C6: a delete that removes an item whose imageurl names a stored image makes
\* exactly one unlink call, on that image; a delete that removes an item with
\* no imageurl makes none and leaves the images as they are.
C6_AssetDeletion ==
    [][ (DeleteStep /\ Len(After) = Len(Before) - 1
             /\ \E p \in DOMAIN Before : After = RemoveAt(Before, p)) =>
            LET imageUrl == ImageurlOf(Before[Removed])
            IN /\ (imageUrl # <<>> /\ Filename(imageUrl) \in images) =>
                      /\ unlinked' = <<Filename(imageUrl)>>
                      /\ images' = images \ {Filename(imageUrl)}
               /\ imageUrl = <<>> => (unlinked' = <<>> /\ images' = images) ]_vars

\* C7: when the image of the item to remove cannot be deleted (it is not a
\* stored file: missing, or the removal raises), the item is removed all the
\* same and the delete reports success.
C7_BestEffort ==
    [][ (DeleteStep /\ InRange
             /\ ImageurlOf(Before[DeleteIndex.n + 1]) # <<>>
             /\ Filename(ImageurlOf(Before[DeleteIndex.n + 1])) \notin images) =>
            /\ res'.success
            /\ After = RemoveAt(Before, DeleteIndex.n + 1) ]_vars

\* C8: list never answers with an error; it returns [] while nothing is
\* persisted and otherwise the collection of the last mutation that reported
\* success, in order; a save leaves exactly the items of its request.
C8_ListReturnsCommitted ==
    /\ (req.op = "list" /\ authenticated[req.session]) =>
           /\ res.status = 200
           /\ res.items = IF committed.exists THEN committed.items ELSE <<>>
    /\ (req.op = "save-items" /\ res.success) =>
           /\ committed = File(JSONparse(req.body))
           /\ ListResult(itemsFile) = JSONparse(req.body)
    /\ itemsFile.exists = committed.exists

\* A list answered with two different items, the status item first.
C8_Witness ==
    /\ req.op = "list"
    /\ res.status = 200
    /\ Len(res.items) = 2
    /\ res.items[1].name = "status"
    /\ res.items[2].name = "imgA"

---------------------------------------------------------------------------
(* Claim about the event loop, under SpecLoop *)

\* The callers whose handler has started and not returned.
InHandler == {c \in Caller : pc[c].at \notin {"idle", "queued"}}

\* C9: an operation runs to completion before the next begins: at most one
\* handler is under way; between a handler's read of items.json and its write
\* the file is the one it read; and whenever no handler is under way the file
\* holds the result of applying the successful mutations one after the other.
C9_RunToCompletion ==
    /\ Cardinality(InHandler) <= 1
    /\ \A c \in Caller :
           (pc[c].op = "delete-item" /\ pc[c].at \in {"unlink", "write"}) =>
               /\ itemsFile.exists
               /\ local[c] = JSONparse(itemsFile.items)
    /\ running = "none" =>
           /\ itemsFile.exists = committed.exists
           /\ JSONparse(itemsFile.items) = committed.items

\* A delete has read two items and not yet written while the other caller's
\* save is waiting for the event loop.
C9_Witness ==
    \E c, d \in Caller :
        /\ c # d
        /\ pc[c].op = "delete-item" /\ pc[c].at = "write" /\ Len(local[c]) = 2
        /\ pc[d].op = "save-items" /\ pc[d].at = "queued"

---------------------------------------------------------------------------
(* Claim about the gate, under SpecAuth *)

ProtectedOps ==
    {"list", "save-items", "generate-lua", "upload-image", "delete-image", "delete-item"}

\* C10: a request to list, save, export, upload, delete an image or delete an
\* item by a session that is not authenticated is redirected and touches
\* neither items.json nor the images; a session becomes authenticated only by
\* its own login with the configured PASSWORD; a logout leaves it not
\* authenticated; without authentication only login and check-auth get past
\* the gate (an uploaded file is served by the static middleware before it).
C10_GateProtects ==
    [][ /\ (req'.op \in ProtectedOps /\ ~authenticated[req'.session]) =>
               /\ res' = Redirect
               /\ UNCHANGED storeVars
        /\ \A s \in Sessions :
               (authenticated'[s] /\ ~authenticated[s]) =>
                   /\ req'.op = "login"
                   /\ req'.session = s
                   /\ req'.password = PASSWORD
        /\ (req'.op = "logout" /\ authenticated[req'.session]) =>
               ~authenticated'[req'.session]
        /\ (~authenticated[req'.session] /\ res' # Redirect) =>
               \/ req'.op \in {"login", "check-auth"}
               \/ req'.op = "static" /\ req'.file \in images ]_vars

\* A delete of an existing item is turned away for one session while the
\* other session is logged in.
C10_Witness ==
    /\ req.op = "delete-item"
    /\ res = Redirect
    /\ ~authenticated[req.session]
    /\ \E s \in Sessions : authenticated[s]
    /\ itemsFile.exists /\ Len(itemsFile.items) = 1

===========================================================================
